---- MODULE Spec2Model ----
(***************************************************************************)
(* Model of generate_images.py: main (configuration, the shared aiohttp    *)
(* session, asyncio.gather over the two renderers) and the two renderers   *)
(* generate_overview and generate_languages.                               *)
(*                                                                         *)
(* Text is a tuple of one-character strings: environment values, names,   *)
(* colors, the templates, the fragments and the SVG files.  A character    *)
(* that a string of this language cannot hold is written by its code       *)
(* point, "U+00A0".  A float percentage is a dyadic rational, held as its  *)
(* integer count of 1/1024 of a percent, which a float holds exactly.      *)
(***************************************************************************)
EXTENDS Integers, Sequences, FiniteSets, TLC

VARIABLES
    env,              \* os.environ: a function from the names that are set to their values
    stats,            \* the snapshot the Stats accessors resolve to
    templates,        \* the contents of templates/overview.svg and templates/languages.svg
    mainPc,           \* position of main: configure, connect, gather, exit, teardown, Done, Failed
    error,            \* the exception main ends with ("none" when there is none)
    config,           \* locals of main after lines 132-152
    session,          \* the aiohttp.ClientSession: [state, opened, closed]
    statsArgs,        \* the arguments Stats was constructed with (NotCreated before)
    gatherResult,     \* outcome of the asyncio.gather future: pending, ok, or the first exception
    task,             \* per renderer: [status, pc, waiting, err]; waiting: suspended on an accessor
    called,           \* per renderer: the accessors it has invoked so far
    overview_data,    \* local of generate_overview
    sorted_languages, \* local of generate_languages
    languages_data,   \* local of generate_languages
    output,           \* per renderer: the local `output` (template text being substituted)
    progress,         \* local of generate_languages
    lang_list,        \* local of generate_languages
    dirExists,        \* os.path.isdir("generated")
    dirCreatedBy,     \* the renderers whose generate_output_folder call ran os.mkdir
    files             \* files under generated/ opened for writing in this run: name -> [content, complete]

vars == <<env, stats, templates, mainPc, error, config, session, statsArgs,
          gatherResult, task, called, overview_data, sorted_languages,
          languages_data, output, progress, lang_list, dirExists, dirCreatedBy,
          files>>

-----------------------------------------------------------------------------
(* Bounds of the explored inputs *)

MaxLangs == 3   \* most languages in the provider's mapping
MaxSize  == 2   \* largest byte size of one language
MaxCut   == 1   \* most characters (entries of a JSON file) left by a write that fails part-way

-----------------------------------------------------------------------------
(* Python values and string methods *)

None == <<"None">>        \* Python's None: a value that is no text
EmptyMap == [x \in {} |-> 0]   \* {} as a function

Get(d, k, default) == IF k \in DOMAIN d THEN d[k] ELSE default

\* The characters of ASCII from " " (32) to "~" (126), in the order of their
\* codes; the grave accent (96) is written by its code point
Printable ==
    << " ", "!", "\"", "#", "$", "%", "&", "'", "(", ")", "*", "+", ",", "-",
       ".", "/", "0", "1", "2", "3", "4", "5", "6", "7", "8", "9", ":", ";",
       "<", "=", ">", "?", "@", "A", "B", "C", "D", "E", "F", "G", "H", "I",
       "J", "K", "L", "M", "N", "O", "P", "Q", "R", "S", "T", "U", "V", "W",
       "X", "Y", "Z", "[", "\\", "]", "^", "_", "U+0060", "a", "b", "c", "d", "e",
       "f", "g", "h", "i", "j", "k", "l", "m", "n", "o", "p", "q", "r", "s",
       "t", "u", "v", "w", "x", "y", "z", "{", "|", "}", "~" >>

HexDigits == <<"0", "1", "2", "3", "4", "5", "6", "7", "8", "9",
               "A", "B", "C", "D", "E", "F">>

HexAt(n, place) == HexDigits[((n \div place) % 16) + 1]

Hex4(n) == HexAt(n, 4096) \o HexAt(n, 256) \o HexAt(n, 16) \o HexAt(n, 1)

\* chr(n)
Chr(n) ==
    IF n \in 32..126 THEN Printable[n - 31]
    ELSE CASE n = 9 -> "\t"
           [] n = 10 -> "\n"
           [] n = 12 -> "\f"
           [] n = 13 -> "\r"
           [] OTHER -> "U+" \o Hex4(n)

\* The code points of the characters of a text: Latin-1 and the other characters
\* for which str.isspace() holds
CodePoints ==
    0..255 \cup {5760} \cup 8192..8202 \cup {8232, 8233, 8239, 8287, 12288}

\* ord(c), as a table
CodeOf == [c \in {Chr(n) : n \in CodePoints} |-> CHOOSE n \in CodePoints : Chr(n) = c]

Ord(c) == CodeOf[c]

DigitChar(d) == Printable[d + 17]

DecDigits == {DigitChar(d) : d \in 0..9}
OctDigits == {DigitChar(d) : d \in 0..7}

DigitValue(c) == CHOOSE d \in 0..9 : DigitChar(d) = c

\* str(n) of an integer n >= 0
RECURSIVE Dec(_)
Dec(n) == IF n < 10 THEN <<DigitChar(n)>> ELSE Dec(n \div 10) \o <<DigitChar(n % 10)>>

\* The last `digits` decimal digits of n, zeros included
RECURSIVE Digits(_, _)
Digits(n, digits) ==
    IF digits = 0 THEN <<>>
    ELSE Digits(n \div 10, digits - 1) \o <<DigitChar(n % 10)>>

\* str(v), as an f-string renders a value: None is the text None
Str(v) == IF v = None THEN <<"N", "o", "n", "e">> ELSE v

\* The characters for which str.isspace() holds: what str.strip() removes
Whitespace ==
    { " ", "\t", "\n", "\r", "\f", "U+000B", "U+001C", "U+001D", "U+001E", "U+001F",
      "U+0085", "U+00A0", "U+1680", "U+2000", "U+2001", "U+2002", "U+2003", "U+2004",
      "U+2005", "U+2006", "U+2007", "U+2008", "U+2009", "U+200A", "U+2028", "U+2029",
      "U+202F", "U+205F", "U+3000" }

RECURSIVE LStrip(_)
LStrip(s) == IF s # <<>> /\ Head(s) \in Whitespace THEN LStrip(Tail(s)) ELSE s

RECURSIVE RStrip(_)
RStrip(s) ==
    IF s # <<>> /\ s[Len(s)] \in Whitespace THEN RStrip(SubSeq(s, 1, Len(s) - 1)) ELSE s

\* str.strip()
Strip(s) == RStrip(LStrip(s))

Upper == <<"A", "B", "C", "D", "E", "F", "G", "H", "I", "J", "K", "L", "M",
           "N", "O", "P", "Q", "R", "S", "T", "U", "V", "W", "X", "Y", "Z">>
LowerOf == <<"a", "b", "c", "d", "e", "f", "g", "h", "i", "j", "k", "l", "m",
             "n", "o", "p", "q", "r", "s", "t", "u", "v", "w", "x", "y", "z">>

AsciiLetters ==
    {Upper[i] : i \in 1..Len(Upper)} \cup {LowerOf[i] : i \in 1..Len(LowerOf)}

\* The capitals among these characters: A-Z and those of Latin-1
Capitals == {Chr(n) : n \in 65..90 \cup 192..214 \cup 216..222}

\* The small letter of each of them is 32 code points above it
LowerChar(c) == IF c \in Capitals THEN Chr(Ord(c) + 32) ELSE c

\* str.lower()
Lower(s) == [i \in 1..Len(s) |-> LowerChar(s[i])]

\* str.split(sep): the pieces between the separators, empty pieces kept
RECURSIVE Split(_, _)
Split(s, sep) ==
    IF \A i \in 1..Len(s) : s[i] # sep
    THEN <<s>>
    ELSE LET i == CHOOSE j \in 1..Len(s) :
                      s[j] = sep /\ \A m \in 1..(j - 1) : s[m] # sep
         IN  <<SubSeq(s, 1, i - 1)>> \o Split(SubSeq(s, i + 1, Len(s)), sep)

\* {x.strip() for x in value.split(",")} if value else None   (lines 140-146)
ParseExcluded(e, name) ==
    IF name \notin DOMAIN e \/ e[name] = <<>>
    THEN None
    ELSE LET parts == Split(e[name], ",")
         IN  {Strip(parts[i]) : i \in 1..Len(parts)}

-----------------------------------------------------------------------------
(* main, lines 132-152: configuration *)

TokenError == "Exception: A personal access token is required to proceed!"
UserError  == "RuntimeError: Environment variable GITHUB_ACTOR must be set."

\* `not access_token` (line 133): None and "" are both falsy
TokenMissingEmptyAccepted(e) == "ACCESS_TOKEN" \notin DOMAIN e
TokenMissing(e) == "ACCESS_TOKEN" \notin DOMAIN e \/ e["ACCESS_TOKEN"] = <<>>

\* `user is None` (line 137)
UserMissing(e) == "GITHUB_ACTOR" \notin DOMAIN e

\* line 148: the value is the literal "true"; the environment is not consulted
RawIgnoreForkedRepos(e) == <<"t", "r", "u", "e">>

\* lines 149-152: not not raw and raw.strip().lower() != "false"
IgnoreForkedRepos(raw) ==
    raw # <<>> /\ Lower(Strip(raw)) # <<"f", "a", "l", "s", "e">>

NotCreated == [created |-> FALSE]
NoConfig == [resolved |-> FALSE]

Configure ==
    /\ mainPc = "configure"
    /\ IF TokenMissing(env)
       THEN /\ mainPc' = "Failed"
            /\ error' = TokenError
            /\ UNCHANGED config
       ELSE IF UserMissing(env)
       THEN /\ mainPc' = "Failed"
            /\ error' = UserError
            /\ UNCHANGED config
       ELSE /\ mainPc' = "connect"
            /\ config' = [resolved |-> TRUE,
                          access_token |-> env["ACCESS_TOKEN"],
                          user |-> env["GITHUB_ACTOR"],
                          excluded_repos |-> ParseExcluded(env, "EXCLUDED"),
                          excluded_langs |-> ParseExcluded(env, "EXCLUDED_LANGS"),
                          ignore_forked_repos |->
                              IgnoreForkedRepos(RawIgnoreForkedRepos(env))]
            /\ UNCHANGED error
    /\ UNCHANGED <<env, stats, templates, session, statsArgs, gatherResult, task,
                   called, overview_data, sorted_languages, languages_data, output,
                   progress, lang_list, dirExists, dirCreatedBy, files>>

-----------------------------------------------------------------------------
(* main, lines 153-162: the session, the Stats object, asyncio.gather *)

Kinds == {"overview", "languages"}

Other(k) == IF k = "overview" THEN "languages" ELSE "overview"

Await(acc, key, how) == [op |-> "await", acc |-> acc, key |-> key, how |-> how]
Sync(op) == [op |-> op, acc |-> "", key |-> "", how |-> ""]

\* generate_output_folder() called on entry, before the accessors are awaited
OverviewStepsFolderFirst ==
    << Sync("mkdir"),
       Await("name", "name", "value"),
       Await("stargazers", "stars", "value"),
       Await("forks", "forks", "value"),
       Await("total_contributions", "contributions", "value"),
       Await("lines_changed", "lines_changed", "first"),
       Await("lines_changed", "lines_changed", "plus_second"),
       Await("views", "views", "value"),
       Await("repos", "repos", "len"),
       Sync("write_json"), Sync("read_template"), Sync("write_svg") >>

\* generate_overview, lines 37-65, as the sequence of its steps
OverviewSteps ==
    << Await("name", "name", "value"),
       Await("stargazers", "stars", "value"),
       Await("forks", "forks", "value"),
       Await("total_contributions", "contributions", "value"),
       Await("lines_changed", "lines_changed", "first"),
       Await("lines_changed", "lines_changed", "plus_second"),
       Await("views", "views", "value"),
       Await("repos", "repos", "len"),
       Sync("mkdir"), Sync("write_json"), Sync("read_template"), Sync("write_svg") >>

\* generate_languages, lines 74-120, as the sequence of its steps
LanguagesSteps ==
    << Await("languages", "", "value"),
       Sync("mkdir"), Sync("write_json"), Sync("read_template"), Sync("write_svg") >>

Steps(k) == IF k = "overview" THEN OverviewSteps ELSE LanguagesSteps

Step(k) == Steps(k)[task[k].pc]

\* A coroutine runs without interruption from one suspension to the next: a
\* renderer that has resumed from an accessor and has neither returned nor
\* suspended on the next accessor holds the loop.
MidTurn(k) ==
    /\ task[k].status = "running"
    /\ task[k].pc > 1
    /\ ~task[k].waiting

LoopFree(k) == ~MidTurn(Other(k))
LoopIdle == \A k \in Kinds : ~MidTurn(k)

Runnable(k) ==
    /\ mainPc \in {"gather", "exit", "teardown"}
    /\ task[k].status = "running"
    /\ LoopFree(k)

\* line 153 (__aenter__), lines 154-161 (Stats), line 162 (gather schedules both)
Connect ==
    /\ mainPc = "connect"
    /\ session' = [state |-> "open", opened |-> session.opened + 1,
                   closed |-> session.closed]
    /\ statsArgs' = [created |-> TRUE,
                     user |-> config.user,
                     access_token |-> config.access_token,
                     exclude_repos |-> config.excluded_repos,
                     exclude_langs |-> config.excluded_langs,
                     ignore_forked_repos |-> config.ignore_forked_repos]
    /\ task' = [k \in Kinds |-> [status |-> "running", pc |-> 1, waiting |-> FALSE, err |-> "none"]]
    /\ mainPc' = "gather"
    /\ UNCHANGED <<env, stats, templates, error, config, gatherResult, called,
                   overview_data, sorted_languages, languages_data, output,
                   progress, lang_list, dirExists, dirCreatedBy, files>>

\* asyncio.gather(..., return_exceptions=True): an exception is one more result
FinishedReturnExceptions(k, status, err) ==
    /\ task' = [task EXCEPT ![k] = [status |-> status, pc |-> task[k].pc, waiting |-> FALSE, err |-> err]]
    /\ gatherResult' =
          IF gatherResult # "pending" THEN gatherResult
          ELSE IF task[Other(k)].status \in {"done", "failed"} THEN "ok"
          ELSE "pending"

\* The renderer's coroutine returned or raised: its task is done, and the gather
\* future takes the first exception, or the results once every child is done.
Finished(k, status, err) ==
    /\ task' = [task EXCEPT ![k] = [status |-> status, pc |-> task[k].pc, waiting |-> FALSE, err |-> err]]
    /\ gatherResult' =
          IF gatherResult # "pending" THEN gatherResult
          ELSE IF status = "failed" THEN err
          ELSE IF task[Other(k)].status = "done" THEN "ok"
          ELSE "pending"

Advance(k) ==
    /\ task' = [task EXCEPT ![k].pc = task[k].pc + 1, ![k].waiting = FALSE]
    /\ UNCHANGED gatherResult

\* line 162: main resumes from `await asyncio.gather(...)`
GatherResume ==
    /\ mainPc = "gather"
    /\ gatherResult # "pending"
    /\ LoopIdle
    /\ mainPc' = "exit"
    /\ error' = IF gatherResult = "ok" THEN "none" ELSE gatherResult
    /\ UNCHANGED <<env, stats, templates, config, session, statsArgs, gatherResult,
                   task, called, overview_data, sorted_languages, languages_data,
                   output, progress, lang_list, dirExists, dirCreatedBy, files>>

\* line 153: `async with` leaves its block, ClientSession.__aexit__ closes the session
SessionClose ==
    /\ mainPc = "exit"
    /\ LoopIdle
    /\ session' = [state |-> "closed", opened |-> session.opened,
                   closed |-> session.closed + 1]
    /\ mainPc' = "teardown"
    /\ UNCHANGED <<env, stats, templates, error, config, statsArgs, gatherResult,
                   task, called, overview_data, sorted_languages, languages_data,
                   output, progress, lang_list, dirExists, dirCreatedBy, files>>

\* line 166: asyncio.run ends: tasks still pending are cancelled at their await,
\* then the result or the exception of main is the result of the run
Teardown ==
    /\ mainPc = "teardown"
    /\ LoopIdle
    /\ task' = [k \in Kinds |->
                  IF task[k].status = "running"
                  THEN [status |-> "cancelled", pc |-> task[k].pc, waiting |-> FALSE,
                        err |-> "CancelledError"]
                  ELSE task[k]]
    /\ mainPc' = IF error = "none" THEN "Done" ELSE "Failed"
    /\ UNCHANGED <<env, stats, templates, error, config, session, statsArgs,
                   gatherResult, called, overview_data, sorted_languages,
                   languages_data, output, progress, lang_list, dirExists,
                   dirCreatedBy, files>>

-----------------------------------------------------------------------------
(* generate_languages, lines 74-85: sorting and the JSON payload *)

Reverse(seq) == [i \in 1..Len(seq) |-> seq[Len(seq) + 1 - i]]

\* key=lambda t: t[1].get("size")
SizeKey(t) == t[2]["size"]

\* Insert t behind every element whose key is not larger: the stable ascending order
RECURSIVE InsertAsc(_, _)
InsertAsc(seq, t) ==
    IF seq = <<>> THEN <<t>>
    ELSE IF SizeKey(Head(seq)) <= SizeKey(t)
         THEN <<Head(seq)>> \o InsertAsc(Tail(seq), t)
         ELSE <<t>> \o seq

RECURSIVE StableAsc(_)
StableAsc(seq) ==
    IF seq = <<>> THEN <<>>
    ELSE InsertAsc(StableAsc(SubSeq(seq, 1, Len(seq) - 1)), seq[Len(seq)])

\* Sorting in ascending order and reversing the result: equal keys change places
SortedThenReversed(items) == Reverse(StableAsc(items))

\* sorted(items, reverse=True, key=...): list.sort reverses the list, sorts it
\* stably in ascending order and reverses the result (lines 74-76)
SortedReverse(items) == Reverse(StableAsc(Reverse(items)))

\* lines 78-85; the keys of a dict are distinct, so no entry is overwritten
LanguagesData(sorted) ==
    [i \in 1..Len(sorted) |->
        <<sorted[i][1],
          [size |-> Get(sorted[i][2], "size", None),
           color |-> Get(sorted[i][2], "color", None),
           percentage |-> Get(sorted[i][2], "prop", 0)]>>]

\* json.dump escapes a character of a string (ensure_ascii is left on)
JsonEscapeChar(c) ==
    CASE c = "\"" -> <<"\\", "\"">>
      [] c = "\\" -> <<"\\", "\\">>
      [] c = "\n" -> <<"\\", "n">>
      [] c = "\r" -> <<"\\", "r">>
      [] c = "\t" -> <<"\\", "t">>
      [] c = "\f" -> <<"\\", "f">>
      [] c = Chr(8) -> <<"\\", "b">>
      [] OTHER ->
           IF Ord(c) \in 32..126 THEN <<c>>
           ELSE <<"\\", "u">> \o Lower(<<HexAt(Ord(c), 4096), HexAt(Ord(c), 256),
                                        HexAt(Ord(c), 16), HexAt(Ord(c), 1)>>)

RECURSIVE JsonEscape(_)
JsonEscape(v) ==
    IF v = <<>> THEN <<>> ELSE JsonEscapeChar(Head(v)) \o JsonEscape(Tail(v))

\* json.dump of a str or None
JsonStr(v) ==
    IF v = None THEN <<"n", "u", "l", "l">>
    ELSE <<"\"">> \o JsonEscape(v) \o <<"\"">>

\* json.dump(languages_data, f, indent=4) (line 90): an object in insertion order
JsonDumpLanguages(data) ==
    [i \in 1..Len(data) |->
        <<JsonStr(data[i][1]),
          [size |-> data[i][2].size,
           color |-> JsonStr(data[i][2].color),
           percentage |-> data[i][2].percentage]>>]

-----------------------------------------------------------------------------
(* generate_languages, lines 96-117: the two fragments *)

delay_between == 150

RECURSIVE Pow10(_)
Pow10(d) == IF d = 0 THEN 1 ELSE 10 * Pow10(d - 1)

\* p / 1024 in units of 10^-digits, rounded to the nearest, an exact tie to even
RoundHalfEven(p, digits) ==
    LET scaled == p * Pow10(digits)
        q == scaled \div 1024
        r == scaled % 1024
    IN  IF 2 * r > 1024 \/ (2 * r = 1024 /\ q % 2 = 1) THEN q + 1 ELSE q

\* f"{x:0.2f}" and f"{x:0.3f}" of the float x = p / 1024
FormatFixed(p, digits) ==
    Dec(RoundHalfEven(p, digits) \div Pow10(digits)) \o <<".">>
        \o Digits(RoundHalfEven(p, digits) % Pow10(digits), digits)

\* The literal text of the f-string of lines 102-104, around its two fields
ProgressOpen ==
    << "<", "s", "p", "a", "n", " ", "s", "t", "y", "l", "e", "=", "\"", "b",
       "a", "c", "k", "g", "r", "o", "u", "n", "d", "-", "c", "o", "l", "o",
       "r", ":", " " >>
ProgressWidth ==
    << ";", "w", "i", "d", "t", "h", ":", " " >>
ProgressClose ==
    << "%", ";", "\"", " ", "c", "l", "a", "s", "s", "=", "\"", "p", "r", "o",
       "g", "r", "e", "s", "s", "-", "i", "t", "e", "m", "\"", ">", "<", "/",
       "s", "p", "a", "n", ">" >>

\* The literal text of the f-string of lines 106-114, around its four fields
ItemDelay ==
    << "\n", "<", "l", "i", " ", "s", "t", "y", "l", "e", "=", "\"", "a", "n",
       "i", "m", "a", "t", "i", "o", "n", "-", "d", "e", "l", "a", "y", ":",
       " " >>
ItemFill ==
    << "m", "s", ";", "\"", ">", "\n", "<", "s", "v", "g", " ", "x", "m", "l",
       "n", "s", "=", "\"", "h", "t", "t", "p", ":", "/", "/", "w", "w", "w",
       ".", "w", "3", ".", "o", "r", "g", "/", "2", "0", "0", "0", "/", "s",
       "v", "g", "\"", " ", "c", "l", "a", "s", "s", "=", "\"", "o", "c", "t",
       "i", "c", "o", "n", "\"", " ", "s", "t", "y", "l", "e", "=", "\"", "f",
       "i", "l", "l", ":" >>
ItemLang ==
    << ";", "\"", "\n", "v", "i", "e", "w", "B", "o", "x", "=", "\"", "0",
       " ", "0", " ", "1", "6", " ", "1", "6", "\"", " ", "v", "e", "r", "s",
       "i", "o", "n", "=", "\"", "1", ".", "1", "\"", " ", "w", "i", "d", "t",
       "h", "=", "\"", "1", "6", "\"", " ", "h", "e", "i", "g", "h", "t", "=",
       "\"", "1", "6", "\"", ">", "<", "p", "a", "t", "h", "\n", "f", "i",
       "l", "l", "-", "r", "u", "l", "e", "=", "\"", "e", "v", "e", "n", "o",
       "d", "d", "\"", " ", "d", "=", "\"", "M", "8", " ", "4", "a", "4", " ",
       "4", " ", "0", " ", "1", "0", "0", " ", "8", " ", "4", " ", "4", " ",
       "0", " ", "0", "0", "0", "-", "8", "z", "\"", ">", "<", "/", "p", "a",
       "t", "h", ">", "<", "/", "s", "v", "g", ">", "\n", "<", "s", "p", "a",
       "n", " ", "c", "l", "a", "s", "s", "=", "\"", "l", "a", "n", "g", "\"",
       ">" >>
ItemPercent ==
    << "<", "/", "s", "p", "a", "n", ">", "\n", "<", "s", "p", "a", "n", " ",
       "c", "l", "a", "s", "s", "=", "\"", "p", "e", "r", "c", "e", "n", "t",
       "\"", ">" >>
ItemClose ==
    << "%", "<", "/", "s", "p", "a", "n", ">", "\n", "<", "/", "l", "i", ">",
       "\n" >>

\* The default color black
DefaultColor == <<"#", "0", "0", "0", "0", "0", "0">>

\* data.get("color") without the fallback
ProgressItemNoFallback(data) ==
    ProgressOpen \o Str(Get(data, "color", None)) \o ProgressWidth
        \o FormatFixed(Get(data, "prop", 0), 3) \o ProgressClose

\* lines 100-105
ProgressItem(data) ==
    ProgressOpen \o Str(Get(data, "color", DefaultColor)) \o ProgressWidth
        \o FormatFixed(Get(data, "prop", 0), 3) \o ProgressClose

\* lines 106-114; i counts from 0
LangListItem(i, lang, data) ==
    ItemDelay \o Dec(i * delay_between) \o ItemFill
        \o Str(Get(data, "color", DefaultColor)) \o ItemLang \o lang
        \o ItemPercent \o FormatFixed(Get(data, "prop", 0), 2) \o ItemClose

RECURSIVE Progress(_)
Progress(sorted) ==
    IF sorted = <<>> THEN <<>>
    ELSE Progress(SubSeq(sorted, 1, Len(sorted) - 1))
           \o ProgressItem(sorted[Len(sorted)][2])

RECURSIVE LangList(_)
LangList(sorted) ==
    IF sorted = <<>> THEN <<>>
    ELSE LangList(SubSeq(sorted, 1, Len(sorted) - 1))
           \o LangListItem(Len(sorted) - 1, sorted[Len(sorted)][1],
                           sorted[Len(sorted)][2])

-----------------------------------------------------------------------------
(* Template substitution *)

\* The outcome of a call that may raise: the exception ("none" when there is
\* none) and the value
Ok(text) == [err |-> "none", out |-> text]
Raised(e) == [err |-> e, out |-> <<>>]

\* The characters that may start an identifier: the letters of Latin-1 and "_"
IdStart ==
    AsciiLetters \cup {"_"}
      \cup {Chr(n) : n \in {170, 181, 186} \cup 192..214 \cup 216..246 \cup 248..255}

\* and those that may continue it: the digits and the middle dot as well
IdContinue == IdStart \cup DecDigits \cup {Chr(183)}

\* str.isidentifier() of a name of these characters
IsIdentifier(name) ==
    /\ name # <<>>
    /\ name[1] \in IdStart
    /\ \A i \in 1..Len(name) : name[i] \in IdContinue

\* What int() strips from both ends: the whitespace but for U+001C to U+001F
IntSpace == Whitespace \ {Chr(n) : n \in 28..31}

IntStrip(s) ==
    IF \A i \in 1..Len(s) : s[i] \in IntSpace THEN <<>>
    ELSE SubSeq(s, CHOOSE i \in 1..Len(s) :
                       s[i] \notin IntSpace /\ \A j \in 1..(i - 1) : s[j] \in IntSpace,
                   CHOOSE i \in 1..Len(s) :
                       s[i] \notin IntSpace /\ \A j \in (i + 1)..Len(s) : s[j] \in IntSpace)

\* int(name) is 0: surrounding whitespace, a sign, then zeros with single
\* underscores between them
IsZeroInt(name) ==
    LET stripped == IntStrip(name)
        body == IF stripped # <<>> /\ stripped[1] \in {"+", "-"}
                THEN Tail(stripped) ELSE stripped
    IN  /\ body # <<>>
        /\ \A i \in 1..Len(body) : body[i] \in {"0", "_"}
        /\ body[1] = "0"
        /\ body[Len(body)] = "0"
        /\ \A i \in 1..(Len(body) - 1) : ~(body[i] = "_" /\ body[i + 1] = "_")

\* The characters a, b, f, n, r, t, v and the backslash after a backslash
EscapeChars == <<"a", "b", "f", "n", "r", "t", "v", "\\">>
EscapeValues == <<Chr(7), Chr(8), Chr(12), Chr(10), Chr(13), Chr(9), Chr(11), Chr(92)>>

At(repl, i) == IF i <= Len(repl) THEN repl[i] ELSE ""

\* re's parse_template and expand_template on the replacement from position i,
\* for a pattern without groups whose match is `matched`.  Text up to the next
\* backslash is literal.  After a backslash:
\*   g<name>     the match when int(name) is 0; IndexError when the name is an
\*               identifier (no group has a name); re.error otherwise
\*   0, 0d, 0dd  (d an octal digit) the character of that octal code
\*   ddd         (octal digits, the first not 0) the character of that code,
\*               re.error above 0o377
\*   d, dd       (the first not 0) a group reference: re.error, there is no group
\*   a b f n r t v \   the control character or the backslash
\*   another ASCII letter   re.error
\*   anything else          the backslash and the character, both kept
\* A backslash that ends the replacement is re.error, raised as soon as the
\* character before it has been read: before the IndexError of a g<name> that
\* it follows.
RECURSIVE ParseTemplate(_, _, _)

ParseTemplateFrom(repl, i, matched) ==
    IF \A j \in i..Len(repl) : repl[j] # "\\"
    THEN Ok(SubSeq(repl, i, Len(repl)))
    ELSE
    LET p == CHOOSE j \in i..Len(repl) :
                 repl[j] = "\\" /\ \A m \in i..(j - 1) : repl[m] # "\\"
        before == SubSeq(repl, i, p - 1)
        c == At(repl, p + 1)
        Then(piece, next) ==
            CHOOSE res \in { IF rest.err # "none" THEN rest
                             ELSE Ok(before \o piece \o rest.out) :
                               rest \in {ParseTemplate(repl, next, matched)} } : TRUE
    IN  IF p = Len(repl) THEN Raised("re.error")
        ELSE IF c = "g" THEN
            IF At(repl, p + 2) # "<" \/ \A j \in (p + 3)..Len(repl) : repl[j] # ">"
            THEN Raised("re.error")
            ELSE LET close == CHOOSE j \in (p + 3)..Len(repl) :
                                 repl[j] = ">" /\ \A m \in (p + 3)..(j - 1) : repl[m] # ">"
                     name == SubSeq(repl, p + 3, close - 1)
                 IN  IF IsZeroInt(name) THEN Then(matched, close + 1)
                     ELSE IF IsIdentifier(name)
                               /\ ~(close + 1 = Len(repl) /\ repl[close + 1] = "\\")
                          THEN Raised("IndexError")
                          ELSE Raised("re.error")
        ELSE IF c = "0" THEN
            IF At(repl, p + 2) \in OctDigits
            THEN IF At(repl, p + 3) \in OctDigits
                 THEN Then(<<Chr(8 * DigitValue(repl[p + 2]) + DigitValue(repl[p + 3]))>>,
                           p + 4)
                 ELSE Then(<<Chr(DigitValue(repl[p + 2]))>>, p + 3)
            ELSE Then(<<Chr(0)>>, p + 2)
        ELSE IF c \in DecDigits THEN
            IF c \in OctDigits /\ At(repl, p + 2) \in OctDigits
                 /\ At(repl, p + 3) \in OctDigits
                 /\ 64 * DigitValue(c) + 8 * DigitValue(repl[p + 2])
                      + DigitValue(repl[p + 3]) <= 255
            THEN Then(<<Chr(64 * DigitValue(c) + 8 * DigitValue(repl[p + 2])
                              + DigitValue(repl[p + 3]))>>, p + 4)
            ELSE Raised("re.error")
        ELSE IF \E e \in 1..Len(EscapeChars) : EscapeChars[e] = c
        THEN Then(<<EscapeValues[CHOOSE e \in 1..Len(EscapeChars) : EscapeChars[e] = c]>>,
                  p + 2)
        ELSE IF c \in AsciiLetters THEN Raised("re.error")
        ELSE Then(<<"\\", c>>, p + 2)

\* The position is bound as a value before the scan
ParseTemplate(repl, i, matched) ==
    CHOOSE res \in { ParseTemplateFrom(repl, from, matched) : from \in {i} } : TRUE

\* The replacement text of a match, or the exception.  The replacement is bound
\* as a value before it is parsed.
ExpandRepl(repl, matched) ==
    CHOOSE res \in { ParseTemplate(r, 1, m) : r \in {repl}, m \in {matched} } : TRUE

\* The positions of the text where the pattern occurs.  None of the patterns of
\* lines 56-62 and 116-117 holds an operator of regular expressions (a brace
\* that opens no repeat count is an ordinary character): each matches its own
\* text and nothing else.
Occurrences(pattern, text) ==
    { p \in 1..(Len(text) - Len(pattern) + 1) :
        text[p] = pattern[1] /\ SubSeq(text, p, p + Len(pattern) - 1) = pattern }

\* The matches are taken from the left and do not overlap
RECURSIVE ReSubFrom(_, _, _, _, _)
ReSubFrom(occ, len, repl, text, i) ==
    IF \A p \in occ : p < i
    THEN SubSeq(text, i, Len(text))
    ELSE LET p == CHOOSE n \in occ : n >= i /\ \A m \in occ : m >= i => n <= m
         IN  SubSeq(text, i, p - 1) \o repl \o ReSubFrom(occ, len, repl, text, p + len)

\* re.sub on arguments that are values
ReSubValues(pattern, repl, text) ==
    CHOOSE res \in { IF r.err # "none" THEN r
                     ELSE Ok(ReSubFrom(occ, Len(pattern), r.out, text, 1)) :
                       r \in {ExpandRepl(repl, pattern)},
                       occ \in {Occurrences(pattern, text)} } : TRUE

\* re.sub(pattern, repl, text): the replacement is parsed, which may raise
\* whether or not the pattern occurs; then every match in the text as it is now
\* is replaced by the expanded replacement, which is not scanned again.  The
\* arguments are bound as values before the scan.
ReSub(pattern, repl, text) ==
    CHOOSE res \in { ReSubValues(p, r, t) :
                       p \in {pattern}, r \in {repl}, t \in {text} } : TRUE

RECURSIVE ReSubAllValues(_, _)
ReSubAllValues(subs, text) ==
    IF subs = <<>> THEN Ok(text)
    ELSE CHOOSE res \in { IF r.err # "none" THEN [err |-> r.err, out |-> text]
                          ELSE ReSubAllValues(rest, r.out) :
                            r \in {ReSub(subs[1][1], subs[1][2], text)},
                            rest \in {Tail(subs)} } : TRUE

\* Successive assignments output = re.sub(..., output): the first exception ends
\* them, leaving output as the last assignment made it
ReSubAll(subs, text) ==
    CHOOSE res \in { ReSubAllValues(s, t) : s \in {subs}, t \in {text} } : TRUE

\* r"{{ word }}"
Placeholder(word) == <<"{", "{", " ">> \o word \o <<" ", "}", "}">>

\* f"{n:,}"
RECURSIVE FormatThousands(_)
FormatThousands(n) ==
    IF n < 1000 THEN Dec(n)
    ELSE FormatThousands(n \div 1000) \o <<",">> \o Digits(n % 1000, 3)

\* lines 56-62, in the order of the source
RenderOverview(text, data) ==
    ReSubAll(<< <<Placeholder(<<"n", "a", "m", "e">>), data["name"]>>,
                <<Placeholder(<<"s", "t", "a", "r", "s">>), FormatThousands(data["stars"])>>,
                <<Placeholder(<<"f", "o", "r", "k", "s">>), FormatThousands(data["forks"])>>,
                <<Placeholder(<<"c", "o", "n", "t", "r", "i", "b", "u", "t", "i", "o", "n", "s">>),
                  FormatThousands(data["contributions"])>>,
                <<Placeholder(<<"l", "i", "n", "e", "s", "_", "c", "h", "a", "n", "g", "e", "d">>),
                  FormatThousands(data["lines_changed"])>>,
                <<Placeholder(<<"v", "i", "e", "w", "s">>), FormatThousands(data["views"])>>,
                <<Placeholder(<<"r", "e", "p", "o", "s">>), FormatThousands(data["repos"])>> >>,
             text)

\* lines 116-117
RenderLanguages(text, prog, list) ==
    ReSubAll(<< <<Placeholder(<<"p", "r", "o", "g", "r", "e", "s", "s">>), prog>>,
                <<Placeholder(<<"l", "a", "n", "g", "_", "l", "i", "s", "t">>), list>> >>,
             text)

-----------------------------------------------------------------------------
(* generate_overview, lines 37-50: the payload *)

Put(f, k, v) == [x \in DOMAIN f \cup {k} |-> IF x = k THEN v ELSE f[x]]

\* The value an awaited accessor contributes to overview_data (lines 38-44)
StoreOverview(data, st, v) ==
    CASE st.how = "value" -> Put(data, st.key, v)
      [] st.how = "first" -> Put(data, st.key, v[1])
      [] st.how = "plus_second" -> Put(data, st.key, data[st.key] + v[2])
      [] st.how = "len" -> Put(data, st.key, Cardinality(v))

OverviewKeys ==
    <<"name", "stars", "forks", "contributions", "lines_changed", "views", "repos">>

\* json.dump(overview_data, f, indent=4) (line 50): an object in insertion order,
\* the name a JSON string and the counts JSON numbers
JsonDumpOverview(data) ==
    [i \in 1..Len(OverviewKeys) |->
        <<OverviewKeys[i],
          IF OverviewKeys[i] = "name"
          THEN JsonStr(data["name"])
          ELSE data[OverviewKeys[i]]>>]

-----------------------------------------------------------------------------
(* The steps of the two renderers *)

JsonFile(k) == IF k = "overview" THEN "overview.json" ELSE "languages.json"
SvgFile(k) == IF k = "overview" THEN "overview.svg" ELSE "languages.svg"

\* `s.<accessor>` of an `await s.<accessor>` (lines 38-44, line 75): the renderer
\* invokes the accessor and suspends on it
CallAccessor(k) ==
    /\ Runnable(k)
    /\ Step(k).op = "await"
    /\ ~task[k].waiting
    /\ called' = [called EXCEPT ![k] = @ \cup {Step(k).acc}]
    /\ task' = [task EXCEPT ![k].waiting = TRUE]
    /\ UNCHANGED <<env, stats, templates, mainPc, error, config, session, statsArgs,
                   gatherResult, overview_data, sorted_languages, languages_data,
                   output, progress, lang_list, dirExists, dirCreatedBy, files>>

\* The renderer resumes from `await s.<accessor>` (lines 38-44, line 75): the
\* accessor has resolved to the snapshot's value or has raised.
\* generate_languages goes on to sort the items and build languages_data
\* (lines 74-85) before its next step.
AwaitAccessor(k) ==
    /\ Runnable(k)
    /\ Step(k).op = "await"
    /\ task[k].waiting
    /\ UNCHANGED called
    /\ \E ok \in BOOLEAN :
         IF ok
         THEN /\ Advance(k)
              /\ IF k = "overview"
                 THEN /\ overview_data' =
                           StoreOverview(overview_data, Step(k), stats[Step(k).acc])
                      /\ UNCHANGED <<sorted_languages, languages_data>>
                 ELSE /\ sorted_languages' = SortedReverse(stats["languages"])
                      /\ languages_data' =
                           LanguagesData(SortedReverse(stats["languages"]))
                      /\ UNCHANGED overview_data
         ELSE /\ Finished(k, "failed", "ProviderError")
              /\ UNCHANGED <<overview_data, sorted_languages, languages_data>>
    /\ UNCHANGED <<env, stats, templates, mainPc, error, config, session, statsArgs,
                   output, progress, lang_list, dirExists, dirCreatedBy, files>>

\* generate_output_folder (lines 18-23), called at line 48 and line 88
GenerateOutputFolder(k) ==
    /\ Runnable(k)
    /\ Step(k).op = "mkdir"
    /\ IF dirExists
       THEN /\ Advance(k)
            /\ UNCHANGED <<dirExists, dirCreatedBy>>
       ELSE \E ok \in BOOLEAN :
              IF ok
              THEN /\ Advance(k)
                   /\ dirExists' = TRUE
                   /\ dirCreatedBy' = dirCreatedBy \cup {k}
              ELSE /\ Finished(k, "failed", "WriteError")
                   /\ UNCHANGED <<dirExists, dirCreatedBy>>
    /\ UNCHANGED <<env, stats, templates, mainPc, error, config, session, statsArgs,
                   called, overview_data, sorted_languages, languages_data, output,
                   progress, lang_list, files>>

WholeFile(content) == [content |-> content, complete |-> TRUE]
CutFile(content, n) == [content |-> SubSeq(content, 1, n), complete |-> FALSE]

\* How much of the content a write that fails part-way may have left in the file
CutLengths(content) == {n \in 0..MaxCut : n = 0 \/ n < Len(content)}

\* open(name, "w") and the write of the content (lines 49-50, 64-65, 89-90,
\* 119-120): the file is written whole, or open raises and there is no file, or
\* open has created the file and the write raises, leaving the file cut short
WriteFile(k, name, content, whenDone) ==
    \/ /\ dirExists
       /\ files' = Put(files, name, WholeFile(content))
       /\ IF whenDone = "return" THEN Finished(k, "done", "none") ELSE Advance(k)
    \/ /\ Finished(k, "failed", "WriteError")
       /\ UNCHANGED files
    \/ /\ dirExists
       /\ \E n \in CutLengths(content) : files' = Put(files, name, CutFile(content, n))
       /\ Finished(k, "failed", "WriteError")

\* lines 49-50 and lines 89-90: open the JSON file for writing and dump the payload
WriteJson(k) ==
    /\ Runnable(k)
    /\ Step(k).op = "write_json"
    /\ \E content \in { IF k = "overview"
                         THEN JsonDumpOverview(overview_data)
                         ELSE JsonDumpLanguages(languages_data) } :
         WriteFile(k, JsonFile(k), content, "continue")
    /\ UNCHANGED <<env, stats, templates, mainPc, error, config, session, statsArgs,
                   called, overview_data, sorted_languages, languages_data, output,
                   progress, lang_list, dirExists, dirCreatedBy>>

\* lines 53-54 and lines 93-94: read the template
ReadTemplate(k) ==
    /\ Runnable(k)
    /\ Step(k).op = "read_template"
    /\ \E ok \in BOOLEAN :
         IF ok
         THEN /\ Advance(k)
              /\ output' = [output EXCEPT ![k] = templates[k]]
         ELSE /\ Finished(k, "failed", "TemplateAssetError")
              /\ UNCHANGED output
    /\ UNCHANGED <<env, stats, templates, mainPc, error, config, session, statsArgs,
                   called, overview_data, sorted_languages, languages_data,
                   progress, lang_list, dirExists, dirCreatedBy, files>>

\* lines 56-65 and lines 96-120: build the fragments, substitute into the
\* template (re.sub may raise on the replacement), write the SVG file and return
WriteSvg(k) ==
    /\ Runnable(k)
    /\ Step(k).op = "write_svg"
    /\ \E prog \in {IF k = "languages" THEN Progress(sorted_languages) ELSE progress},
          list \in {IF k = "languages" THEN LangList(sorted_languages) ELSE lang_list} :
         /\ progress' = prog
         /\ lang_list' = list
         /\ \E res \in { IF k = "overview"
                         THEN RenderOverview(output[k], overview_data)
                         ELSE RenderLanguages(output[k], prog, list) } :
              /\ output' = [output EXCEPT ![k] = res.out]
              /\ IF res.err # "none"
                 THEN /\ Finished(k, "failed", res.err)
                      /\ UNCHANGED files
                 ELSE WriteFile(k, SvgFile(k), res.out, "return")
    /\ UNCHANGED <<env, stats, templates, mainPc, error, config, session, statsArgs,
                   called, overview_data, sorted_languages, languages_data,
                   dirExists, dirCreatedBy>>

-----------------------------------------------------------------------------
(* Inputs *)

Tok == <<"t", "o", "k">>
Usr == <<"u">>
FalseText == <<"f", "a", "l", "s", "e">>

ForkFlagValues ==
    { FalseText, <<" ", "F", "a", "l", "s", "e", " ">>, <<"F", "A", "L", "S", "E">>,
      <<"f", "a", "l", "s", "e", "\n">>, <<"t", "r", "u", "e">>, <<>>, <<"n", "o">> }

Opt(S) == {{}} \cup {{v} : v \in S}

\* An environment in which each name is unset (the empty set) or set to one value
MkEnv(tok, usr, ex, exl, fk) ==
    LET given == [ACCESS_TOKEN |-> tok, GITHUB_ACTOR |-> usr, EXCLUDED |-> ex,
                  EXCLUDED_LANGS |-> exl, EXCLUDE_FORKED_REPOS |-> fk]
    IN  [n \in {m \in DOMAIN given : given[m] # {}} |-> CHOOSE v \in given[n] : TRUE]

AllEnvs ==
    { MkEnv(tok, usr, ex, exl, fk) :
        tok \in Opt({<<>>, Tok}), usr \in Opt({<<>>, Usr}),
        ex \in Opt({<<>>, <<"a", ",", " ", "b", "\n">>}), exl \in Opt({<<"c">>}),
        fk \in Opt(ForkFlagValues) }

RunEnvs ==
    { MkEnv(tok, usr, {}, {}, {}) : tok \in Opt({<<>>, Tok}), usr \in Opt({<<>>, Usr}) }

OkEnv == MkEnv({Tok}, {Usr}, {}, {}, {})

\* A provider record of one language: size always, color and prop when given
MkLang(size, color, prop) ==
    [f \in {"size"} \cup (IF color = {} THEN {} ELSE {"color"})
                    \cup (IF prop = {} THEN {} ELSE {"prop"}) |->
        CASE f = "size" -> size
          [] f = "color" -> CHOOSE c \in color : TRUE
          [] f = "prop" -> CHOOSE p \in prop : TRUE]

White == <<"#", "f", "f", "f">>

\* 25.5 and 12.345703125, as counts of 1/1024
LangRecords ==
    { MkLang(size, cp[1], cp[2]) :
        size \in 1..MaxSize,
        cp \in { <<{}, {}>>, <<{}, {26112}>>, <<{White}, {}>>, <<{White}, {12642}>> } }

LangName(i) == <<"L", DigitChar(i)>>

\* The provider's mapping, as the items in the order the provider emitted them
MkLanguages(recs) == [i \in 1..Len(recs) |-> <<LangName(i), recs[i]>>]

ScenarioLanguages ==
    << << <<"A">>, MkLang(300, {}, {}) >>, << <<"B">>, MkLang(100, {White}, {26112}) >>,
       << <<"C">>, MkLang(300, {None}, {128}) >> >>

MkStats(name, languages) ==
    [name |-> name, stargazers |-> 1234, forks |-> 56, total_contributions |-> 1000,
     lines_changed |-> <<1200000, 34>>, views |-> 7,
     repos |-> {"r1", "r2"}, languages |-> languages]

PlainName == <<"o", "c", "t", "o", " ", "c", "a", "t">>

\* Display names: a plain name, the text of a placeholder, a backslash and a
\* letter that is no escape, an octal escape of three digits, a backslash before
\* a placeholder
Names ==
    { PlainName,
      <<"{", "{", " ", "s", "t", "a", "r", "s", " ", "}", "}">>,
      <<"C", ":", "\\", "U", "s", "e", "r", "s">>,
      <<"\\", "1", "0", "1">>,
      <<"\\", "{", "{", " ", "s", "t", "a", "r", "s", " ", "}", "}">> }

SvgOpen == <<"<", "s", "v", "g", ">">>
SvgClose == <<"<", "/", "s", "v", "g", ">">>
ListOpen == <<"<", "u", "l", ">">>
ListClose == <<"<", "/", "u", "l", ">">>

\* templates/overview.svg: the seven placeholders of lines 56-62
OverviewTemplate ==
    SvgOpen \o Placeholder(<<"n", "a", "m", "e">>)
        \o Placeholder(<<"s", "t", "a", "r", "s">>)
        \o Placeholder(<<"f", "o", "r", "k", "s">>)
        \o Placeholder(<<"c", "o", "n", "t", "r", "i", "b", "u", "t", "i", "o", "n", "s">>)
        \o Placeholder(<<"l", "i", "n", "e", "s", "_", "c", "h", "a", "n", "g", "e", "d">>)
        \o Placeholder(<<"v", "i", "e", "w", "s">>)
        \o Placeholder(<<"r", "e", "p", "o", "s">>) \o SvgClose

\* templates/languages.svg: the two placeholders of lines 116-117
LanguagesTemplate ==
    SvgOpen \o Placeholder(<<"p", "r", "o", "g", "r", "e", "s", "s">>) \o ListOpen
        \o Placeholder(<<"l", "a", "n", "g", "_", "l", "i", "s", "t">>)
        \o ListClose \o SvgClose

Templates == [overview |-> OverviewTemplate, languages |-> LanguagesTemplate]

-----------------------------------------------------------------------------
(* Specifications *)

InitWith(e, st, dir) ==
    /\ env = e
    /\ stats = st
    /\ templates = Templates
    /\ mainPc = "configure"
    /\ error = "none"
    /\ config = NoConfig
    /\ session = [state |-> "none", opened |-> 0, closed |-> 0]
    /\ statsArgs = NotCreated
    /\ gatherResult = "pending"
    /\ task = [k \in Kinds |-> [status |-> "idle", pc |-> 1, waiting |-> FALSE, err |-> "none"]]
    /\ called = [k \in Kinds |-> {}]
    /\ overview_data = EmptyMap
    /\ sorted_languages = <<>>
    /\ languages_data = <<>>
    /\ output = [k \in Kinds |-> <<>>]
    /\ progress = <<>>
    /\ lang_list = <<>>
    /\ dirExists = dir
    /\ dirCreatedBy = {}
    /\ files = EmptyMap

\* A whole run, both renderers interleaving
Init ==
    \E e \in RunEnvs, n \in Names, ls \in {<<>>, ScenarioLanguages}, dir \in BOOLEAN :
        InitWith(e, MkStats(n, ls), dir)

Next ==
    \/ Configure
    \/ Connect
    \/ \E k \in Kinds : CallAccessor(k)
    \/ \E k \in Kinds : AwaitAccessor(k)
    \/ \E k \in Kinds : GenerateOutputFolder(k)
    \/ \E k \in Kinds : WriteJson(k)
    \/ \E k \in Kinds : ReadTemplate(k)
    \/ \E k \in Kinds : WriteSvg(k)
    \/ GatherResume
    \/ SessionClose
    \/ Teardown

Spec == Init /\ [][Next]_vars

\* What the event loop runs by itself: every step but the resumption from an
\* awaited accessor, which waits for the provider to resolve or raise
ScheduledNext ==
    \/ Configure
    \/ Connect
    \/ \E k \in Kinds : CallAccessor(k)
    \/ \E k \in Kinds : GenerateOutputFolder(k)
    \/ \E k \in Kinds : WriteJson(k)
    \/ \E k \in Kinds : ReadTemplate(k)
    \/ \E k \in Kinds : WriteSvg(k)
    \/ GatherResume
    \/ SessionClose
    \/ Teardown

\* The event loop runs whatever is ready; an awaited accessor may stay pending
FairSpec == Spec /\ WF_vars(ScheduledNext)

\* Configuration over every environment
CfgInit ==
    \E e \in AllEnvs : InitWith(e, MkStats(PlainName, ScenarioLanguages), FALSE)

CfgNext == Configure \/ Connect

CfgSpec == CfgInit /\ [][CfgNext]_vars

\* generate_languages over every language mapping
LangInit ==
    \E n \in 0..MaxLangs :
        \E recs \in [1..n -> LangRecords] :
            InitWith(OkEnv, MkStats(PlainName, MkLanguages(recs)), FALSE)

LangNext ==
    \/ Configure
    \/ Connect
    \/ CallAccessor("languages")
    \/ AwaitAccessor("languages")
    \/ GenerateOutputFolder("languages")
    \/ WriteJson("languages")
    \/ ReadTemplate("languages")
    \/ WriteSvg("languages")

LangSpec == LangInit /\ [][LangNext]_vars

-----------------------------------------------------------------------------
(* Properties *)

Terminal == mainPc \in {"Done", "Failed"}

RendererFinished(k) == task[k].status \in {"done", "failed", "cancelled"}

\* The file exists, whole or cut short
Written(name) == name \in DOMAIN files

\* The file exists and was written whole
Complete(name) == name \in DOMAIN files /\ files[name].complete

Content(name) == files[name].content

\* The renderer is suspended on an accessor
AtAwait(k) == task[k].status = "running" /\ task[k].waiting

\* C1: in every run that reaches Connect the session is opened once and closed
\* exactly once, and it is closed only after both renderers have finished
\* (completed, failed or been cancelled).
C1_SessionClosedAfterRenderers ==
    /\ session.opened <= 1
    /\ session.closed <= 1
    /\ (Terminal /\ session.opened = 1) => session.closed = 1
    /\ session.closed >= 1 => \A k \in Kinds : RendererFinished(k)

\* C2: a renderer that failed never leaves its JSON file written in this run
\* without its SVG file.
C2_NoPartialArtifact ==
    \A k \in Kinds :
        task[k].status = "failed" => ~(Written(JsonFile(k)) /\ ~Written(SvgFile(k)))

\* C3: with the access token absent or empty, or the user absent, main fails in
\* Configure: the session is never opened, Stats is never constructed, no accessor
\* is awaited, neither the directory nor a file is created, and the error of a
\* missing token differs from the error of a missing user.
C3_ConfigureFailsFast ==
    LET noToken == "ACCESS_TOKEN" \notin DOMAIN env \/ env["ACCESS_TOKEN"] = <<>>
        noUser == "GITHUB_ACTOR" \notin DOMAIN env
    IN  (noToken \/ noUser) =>
          /\ mainPc \in {"configure", "Failed"}
          /\ session = [state |-> "none", opened |-> 0, closed |-> 0]
          /\ statsArgs = NotCreated
          /\ \A k \in Kinds : task[k].status = "idle" /\ called[k] = {}
          /\ dirCreatedBy = {}
          /\ files = EmptyMap
          /\ mainPc = "Failed" =>
                /\ noToken => error = TokenError
                /\ ~noToken => error = UserError
                /\ TokenError # UserError

C3_FailedOnEmptyToken ==
    /\ mainPc = "Failed"
    /\ "ACCESS_TOKEN" \in DOMAIN env
    /\ env["ACCESS_TOKEN"] = <<>>
    /\ "GITHUB_ACTOR" \in DOMAIN env
    /\ error = TokenError

AllFour == {"overview.json", "overview.svg", "languages.json", "languages.svg"}

\* C4 as stated: the run ends in Done only if both renderers completed and all
\* four files were written in this run; if a renderer fails the run ends in
\* Failed; every run reaches Done or Failed.
C4_RunIsBinary ==
    /\ [](mainPc = "Done" =>
            /\ \A k \in Kinds : task[k].status = "done"
            /\ \A name \in AllFour : Complete(name))
    /\ \A k \in Kinds : (task[k].status = "failed") ~> (mainPc = "Failed")
    /\ <>Terminal

\* C4 amended: the run ends in Done only if both renderers completed and all four
\* files were written whole in this run; if a renderer fails the run ends in
\* Failed; every run reaches Done or Failed unless main waits for ever in gather
\* on a renderer whose awaited accessor neither resolves nor raises.
C4_RunIsBinaryUnlessAccessorHangs ==
    /\ [](mainPc = "Done" =>
            /\ \A k \in Kinds : task[k].status = "done"
            /\ \A name \in AllFour : Complete(name))
    /\ \A k \in Kinds : (task[k].status = "failed") ~> (mainPc = "Failed")
    /\ \/ <>Terminal
       \/ <>[](mainPc = "gather" /\ AtAwait("overview"))
       \/ <>[](mainPc = "gather" /\ AtAwait("languages"))

C4_DoneWithFourFiles ==
    /\ mainPc = "Done"
    /\ DOMAIN files = AllFour
    /\ \A name \in AllFour : Complete(name)
    /\ session.closed = 1

\* C10: a renderer whose awaited accessor failed has written neither of its files
\* and has not created the output directory, whatever the sibling renderer did.
C10_AccessorFailureWritesNothing ==
    \A k \in Kinds :
        task[k].err = "ProviderError" =>
            /\ ~Written(JsonFile(k))
            /\ ~Written(SvgFile(k))
            /\ k \notin dirCreatedBy

C10_LastAccessorFailedSiblingWrote ==
    /\ task["overview"].err = "ProviderError"
    /\ called["overview"] = {"name", "stargazers", "forks", "total_contributions",
                             "lines_changed", "views", "repos"}
    /\ dirCreatedBy = {"languages"}
    /\ Written("languages.svg")

\* The provider's record of the language of this name
ProviderRecord(lang) ==
    stats["languages"][CHOOSE j \in 1..Len(stats["languages"]) :
                          stats["languages"][j][1] = lang][2]

ProviderIndex(lang) ==
    CHOOSE j \in 1..Len(stats["languages"]) : stats["languages"][j][1] = lang

NumLangs == Len(stats["languages"])

\* C5: in languages.json the color and the percentage are the provider's
\* raw values: an entry without color is written with color null, never "#000000",
\* and an entry without prop is never written with percentage 0.
C5_JsonRawNoDefaults ==
    Written("languages.json") =>
        \A i \in 1..Len(Content("languages.json")) :
            LET entry == Content("languages.json")[i][2]
                rec == ProviderRecord(sorted_languages[i][1])
            IN  /\ "color" \notin DOMAIN rec => entry.color = <<"n", "u", "l", "l">>
                /\ "color" \in DOMAIN rec => entry.color = JsonStr(rec["color"])
                /\ "prop" \in DOMAIN rec => entry.percentage = rec["prop"]
                /\ "prop" \notin DOMAIN rec => entry.percentage # 0

\* C6: languages.json, the progress fragment and the list fragment hold the
\* provider's languages in one and the same order, which is non-increasing by
\* size and keeps languages of equal size in the order the provider emitted them.
C6_StableDescendingOrder ==
    Complete("languages.svg") =>
        LET json == Content("languages.json")
            LangAt(i) == CHOOSE l \in {stats["languages"][j][1] : j \in 1..NumLangs} :
                             JsonStr(l) = json[i][1]
            order == [i \in 1..NumLangs |-> <<LangAt(i), ProviderRecord(LangAt(i))>>]
        IN  /\ Complete("languages.json")
            /\ Len(json) = NumLangs
            /\ \A j \in 1..NumLangs :
                  \E i \in 1..NumLangs : json[i][1] = JsonStr(stats["languages"][j][1])
            /\ \A i \in 1..NumLangs : json[i][2].size = ProviderRecord(LangAt(i))["size"]
            /\ progress = Progress(order)
            /\ lang_list = LangList(order)
            /\ Content("languages.svg") =
                  SvgOpen \o progress \o ListOpen \o lang_list \o ListClose \o SvgClose
            /\ \A i, j \in 1..NumLangs :
                  i < j =>
                    /\ json[i][2].size >= json[j][2].size
                    /\ json[i][2].size = json[j][2].size =>
                          ProviderIndex(LangAt(i)) < ProviderIndex(LangAt(j))

C6_TiesAndDisorderRendered ==
    /\ Complete("languages.svg")
    /\ NumLangs = 3
    /\ stats["languages"][1][2]["size"] = 1
    /\ stats["languages"][2][2]["size"] = 2
    /\ stats["languages"][3][2]["size"] = 1
    /\ "color" \in DOMAIN stats["languages"][1][2]
    /\ "color" \notin DOMAIN stats["languages"][3][2]

\* The color, the width and the label C9 states for a provider record
C9_Color(rec) == IF "color" \in DOMAIN rec THEN rec["color"]
                 ELSE <<"#", "0", "0", "0", "0", "0", "0">>

C9_Width(rec) ==
    CASE "prop" \notin DOMAIN rec -> <<"0", ".", "0", "0", "0">>
      [] "prop" \in DOMAIN rec /\ rec["prop"] = 26112 -> <<"2", "5", ".", "5", "0", "0">>
      [] "prop" \in DOMAIN rec /\ rec["prop"] = 12642 -> <<"1", "2", ".", "3", "4", "6">>

C9_Label(rec) ==
    CASE "prop" \notin DOMAIN rec -> <<"0", ".", "0", "0">>
      [] "prop" \in DOMAIN rec /\ rec["prop"] = 26112 -> <<"2", "5", ".", "5", "0">>
      [] "prop" \in DOMAIN rec /\ rec["prop"] = 12642 -> <<"1", "2", ".", "3", "5">>

\* The bar segments and the list items of the first n languages, as C9 states them
RECURSIVE C9_Segments(_)
C9_Segments(n) ==
    IF n = 0 THEN <<>>
    ELSE LET rec == ProviderRecord(sorted_languages[n][1])
         IN  C9_Segments(n - 1) \o ProgressOpen \o C9_Color(rec) \o ProgressWidth
                 \o C9_Width(rec) \o ProgressClose

RECURSIVE C9_Items(_)
C9_Items(n) ==
    IF n = 0 THEN <<>>
    ELSE LET rec == ProviderRecord(sorted_languages[n][1])
         IN  C9_Items(n - 1) \o ItemDelay \o Dec((n - 1) * 150) \o ItemFill
                 \o C9_Color(rec) \o ItemLang \o sorted_languages[n][1]
                 \o ItemPercent \o C9_Label(rec) \o ItemClose

\* C9: in languages.svg a language without color has the color #000000 in its bar
\* segment and in its list marker, a language without percentage has the width
\* 0.000% and the label 0.00%, and a language that has the fields is rendered
\* with its own values (25.5 as 25.500% and 25.50%, 12.345703125 as 12.346% and
\* 12.35%).
C9_SvgFallbacks ==
    Complete("languages.svg") =>
        Content("languages.svg") =
            SvgOpen \o C9_Segments(NumLangs) \o ListOpen \o C9_Items(NumLangs)
                \o ListClose \o SvgClose

C9_SvgWithAndWithoutFields ==
    /\ Complete("languages.svg")
    /\ NumLangs >= 2
    /\ DOMAIN stats["languages"][1][2] = {"size"}
    /\ DOMAIN stats["languages"][2][2] = {"size", "color", "prop"}
    /\ stats["languages"][1][2]["size"] > stats["languages"][2][2]["size"]

\* What a substitution that never rescans a replacement produces: every
\* placeholder of the template becomes its value, once, and the value is kept
\* as it is
RECURSIVE SubstituteOnce(_, _, _)
SubstituteOnce(text, subs, i) ==
    IF i > Len(text) THEN <<>>
    ELSE IF \E j \in 1..Len(subs) :
                /\ i + Len(subs[j][1]) - 1 <= Len(text)
                /\ SubSeq(text, i, i + Len(subs[j][1]) - 1) = subs[j][1]
    THEN LET j == CHOOSE n \in 1..Len(subs) :
                      /\ i + Len(subs[n][1]) - 1 <= Len(text)
                      /\ SubSeq(text, i, i + Len(subs[n][1]) - 1) = subs[n][1]
         IN  subs[j][2] \o SubstituteOnce(text, subs, i + Len(subs[j][1]))
    ELSE <<text[i]>> \o SubstituteOnce(text, subs, i + 1)

OverviewSubstitutions ==
    << <<Placeholder(<<"n", "a", "m", "e">>), stats["name"]>>,
       <<Placeholder(<<"s", "t", "a", "r", "s">>), FormatThousands(stats["stargazers"])>>,
       <<Placeholder(<<"f", "o", "r", "k", "s">>), FormatThousands(stats["forks"])>>,
       <<Placeholder(<<"c", "o", "n", "t", "r", "i", "b", "u", "t", "i", "o", "n", "s">>),
         FormatThousands(stats["total_contributions"])>>,
       <<Placeholder(<<"l", "i", "n", "e", "s", "_", "c", "h", "a", "n", "g", "e", "d">>),
         FormatThousands(stats["lines_changed"][1] + stats["lines_changed"][2])>>,
       <<Placeholder(<<"v", "i", "e", "w", "s">>), FormatThousands(stats["views"])>>,
       <<Placeholder(<<"r", "e", "p", "o", "s">>),
         FormatThousands(Cardinality(stats["repos"]))>> >>

\* C7: substitution is not recursive: a placeholder token inside a replacement
\* value (a display name that is the text of the stars placeholder) appears
\* verbatim in overview.svg, whatever the order of the substitutions.
C7_SubstitutionNotRecursive ==
    Complete("overview.svg") =>
        Content("overview.svg") =
            SubstituteOnce(templates["overview"], OverviewSubstitutions, 1)

\* C8: the ignore_forked_repos argument of Stats is false exactly when the
\* configured value, stripped and lower-cased, is "false", and true for every
\* other value and when the value is not set.
C8_IgnoreForkedFollowsInput ==
    statsArgs.created =>
        (statsArgs.ignore_forked_repos = FALSE
           <=> /\ "EXCLUDE_FORKED_REPOS" \in DOMAIN env
               /\ Lower(Strip(env["EXCLUDE_FORKED_REPOS"])) = FalseText)

====
